---------------------------- MODULE Spec2Model ----------------------------
(***************************************************************************)
(* A model of the URL shortener: the URLShortener and URLClick tables, the *)
(* creation requests (form, REST API, bulk form, bulk API), the redirect   *)
(* request with its click tracking, and the admin edits of a link.         *)
(*                                                                         *)
(* Every request is handled by a worker; a worker's handler is cut into    *)
(* steps at its database statements, so that the statements of concurrent  *)
(* requests interleave the way the database lets them.  Each statement is  *)
(* atomic, as it is in the database.                                       *)
(*                                                                         *)
(* Strings that the code inspects character by character (short codes,     *)
(* aliases, host names) are sequences of one-character strings.            *)
(***************************************************************************)
EXTENDS Integers, Sequences, FiniteSets, Bags, TLC

(***************************************************************************)
(* Bounds of the model.                                                    *)
(***************************************************************************)
\* rows the URLShortener table may hold
MaxLinks == 2
\* redirect requests that may get past the lookup
MaxClicks == 2
\* the clock runs from 0 to MaxTime
MaxTime == 1
\* the client sends no more requests when more than MaxLost requests have
\* been let through and not counted (their write of the count overwritten),
\* or when the count has grown by more than MaxLost since a request that is
\* being served has read it
MaxLost == 1

\* the request workers (threads of the surrounding server)
Workers == {"w1", "w2"}

\* SQL NULL in custom_alias (no alias is this string)
NULL == <<"<", "N", "U", "L", "L", ">">>

(***************************************************************************)
(* Characters and strings.                                                 *)
(***************************************************************************)
ascii_lowercase ==
    <<"a","b","c","d","e","f","g","h","i","j","k","l","m",
      "n","o","p","q","r","s","t","u","v","w","x","y","z">>

ascii_uppercase ==
    <<"A","B","C","D","E","F","G","H","I","J","K","L","M",
      "N","O","P","Q","R","S","T","U","V","W","X","Y","Z">>

digits == <<"0","1","2","3","4","5","6","7","8","9">>

Range(s) == {s[i] : i \in DOMAIN s}

\* string.ascii_letters + string.digits
characters == Range(ascii_lowercase) \cup Range(ascii_uppercase) \cup Range(digits)

\* the characters hashlib's hexdigest() is made of
hexdigits == Range(digits) \cup {"a","b","c","d","e","f"}

\* str.lower() of one character
LowerChar(c) ==
    IF \E i \in DOMAIN ascii_uppercase : ascii_uppercase[i] = c
    THEN ascii_lowercase[CHOOSE i \in DOMAIN ascii_uppercase : ascii_uppercase[i] = c]
    ELSE c

\* str.lower()
Lower(s) == [i \in DOMAIN s |-> LowerChar(s[i])]

\* sub in s
Contains(s, sub) ==
    \E i \in 0..(Len(s) - Len(sub)) : SubSeq(s, i + 1, i + Len(sub)) = sub

(***************************************************************************)
(* utils.is_valid_custom_alias                                             *)
(***************************************************************************)
reserved_words ==
    { <<"a","d","m","i","n">>, <<"a","p","i">>, <<"w","w","w">>,
      <<"m","a","i","l">>, <<"f","t","p">>,
      <<"l","o","c","a","l","h","o","s","t">>,
      <<"d","a","s","h","b","o","a","r","d">>,
      <<"a","n","a","l","y","t","i","c","s">>, <<"s","t","a","t","s">>,
      <<"h","e","l","p">>, <<"s","u","p","p","o","r","t">>,
      <<"a","b","o","u","t">>, <<"c","o","n","t","a","c","t">>,
      <<"p","r","i","v","a","c","y">>, <<"t","e","r","m","s">>,
      <<"l","o","g","i","n">>, <<"r","e","g","i","s","t","e","r">> }

\* the character class of r'^[a-zA-Z0-9_-]+$'
AliasChars == characters \cup {"_", "-"}

AliasMinLen == 3
AliasMaxLen == 50

\* re.match(r'^[a-zA-Z0-9_-]+$', alias): one or more characters of the class
\* up to the end, where $ is the end of the string or the place before a
\* newline that is its last character
MatchesAliasPattern(alias) ==
    \E n \in 1..Len(alias) :
        /\ \A i \in 1..n : alias[i] \in AliasChars
        /\ \/ n = Len(alias)
           \/ n = Len(alias) - 1 /\ alias[Len(alias)] = "\n"

\* "not alias" is true of None and of the empty string
is_valid_custom_alias(alias) ==
    IF alias = NULL \/ alias = <<>> THEN TRUE
    ELSE IF Len(alias) < AliasMinLen \/ Len(alias) > AliasMaxLen THEN FALSE
    ELSE IF ~MatchesAliasPattern(alias) THEN FALSE
    ELSE IF Lower(alias) \in reserved_words THEN FALSE
    ELSE TRUE

(***************************************************************************)
(* URLs.  A URL is the record of the parts urlparse() splits it into: the  *)
(* scheme ("" when the text does not start with http:// or https://), the  *)
(* netloc, and the rest (path, params, query, fragment), which no code of  *)
(* the model looks into.                                                   *)
(***************************************************************************)
EmptyURL == [scheme |-> "", netloc |-> <<>>, rest |-> ""]

\* utils.validate_url: the normalized URL, or ok = FALSE for ValidationError
validate_url(url) ==
    IF url = EmptyURL THEN [ok |-> FALSE, url |-> EmptyURL]
    ELSE LET withScheme == IF url.scheme = ""
                           THEN [url EXCEPT !.scheme = "https"]
                           ELSE url
         IN  IF withScheme.netloc = <<>>
             THEN [ok |-> FALSE, url |-> EmptyURL]
             ELSE [ok |-> TRUE,
                   url |-> [withScheme EXCEPT !.netloc = Lower(withScheme.netloc)]]

dangerous_domains ==
    { <<"b","i","t",".","l","y">>,
      <<"t","i","n","y","u","r","l",".","c","o","m">>,
      <<"s","h","o","r","t",".","l","i","n","k">> ,
      <<"m","a","l","w","a","r","e","-","e","x","a","m","p","l","e",".","c","o","m">> }

\* [0-9]
DigitChars == Range(digits)
\* [a-z0-9]
LowerOrDigitChars == Range(ascii_lowercase) \cup Range(digits)

IsDigits(s, from, n) ==
    /\ from + n - 1 <= Len(s)
    /\ \A j \in from..(from + n - 1) : s[j] \in DigitChars

IsDot(s, i) == i <= Len(s) /\ s[i] = "."

\* re.search(r'[0-9]{1,3}\.[0-9]{1,3}\.[0-9]{1,3}\.[0-9]{1,3}', s)
MatchesIPPattern(s) ==
    \E i \in DOMAIN s :
        /\ IsDigits(s, i, 1)
        /\ IsDot(s, i + 1)
        /\ \E b, c \in 1..3 :
              /\ IsDigits(s, i + 2, b)
              /\ IsDot(s, i + 2 + b)
              /\ IsDigits(s, i + 3 + b, c)
              /\ IsDot(s, i + 3 + b + c)
              /\ IsDigits(s, i + 4 + b + c, 1)

LongRunLen == 20

\* re.search(r'[a-z0-9]{20,}', s)
MatchesLongRun(s) ==
    \E i \in DOMAIN s :
        /\ i + LongRunLen - 1 <= Len(s)
        /\ \A j \in i..(i + LongRunLen - 1) :
               s[j] \in LowerOrDigitChars

\* utils.is_safe_url
is_safe_url(url) ==
    LET domain == Lower(url.netloc)
    IN  /\ ~(\E dangerous \in dangerous_domains : Contains(domain, dangerous))
        /\ ~MatchesIPPattern(domain)
        /\ ~MatchesLongRun(domain)

(***************************************************************************)
(* The inputs the requests are drawn from.                                 *)
(***************************************************************************)
\* a 6-character string of hex digits: random.choice can draw it, a digest
\* can start with it, and it is a well-formed custom alias
CodeA == <<"a","b","c","1","2","3">>
\* a 6-character string only random.choice can draw
CodeB == <<"Z","x","9","Q","p","2">>

\* generate_short_code(self, length=6)
length == 6

\* s[:n] without the slice: all of s
Whole(s, n) == s

\* s[:n]
Slice(s, n) == IF Len(s) <= n THEN s ELSE SubSeq(s, 1, n)

\* the strings ''.join(random.choice(characters) for _ in range(length))
\* may give, among those tried
RandomDraws ==
    {c \in {CodeA, CodeB} : Len(c) = length /\ Range(c) \subseteq characters}

\* the number of hex digits of an md5 hexdigest()
DigestLen == 32

\* the strings hashlib.md5(...).hexdigest() may give, among those tried
HexDigests ==
    {d \in {CodeA \o <<"9","f","0","e","7","7","d","4","4","b","0","a","5",
                       "c","8","1","6","e","2","f","3","d","0","b","9","a">>} :
        Len(d) = DigestLen /\ Range(d) \subseteq hexdigits}

\* the strings hash_object.hexdigest()[:length] may give
DigestPrefixes == {Slice(d, length) : d \in HexDigests}

\* the custom_alias a creation request may carry (<<>>: none given):
\* a well-formed one and a reserved word
AliasInputs == {<<>>, CodeA, <<"A","d","m","i","n">>}

HostA == <<"a",".","i","o">>
HostB == <<"b",".","i","o">>
URL1 == [scheme |-> "https", netloc |-> HostA, rest |-> "/x"]
URL2 == [scheme |-> "https", netloc |-> HostB, rest |-> ""]
\* the text lines and field values a creation request may carry
RawURLs ==
    { URL1, URL2,
      [scheme |-> "", netloc |-> <<"A",".","i","o">>, rest |-> "/x"],
      [scheme |-> "https", netloc |-> <<"b","i","t",".","l","y">>, rest |-> "/z"],
      EmptyURL }

\* what forms.URLField and serializers.URLField let through
FieldURLs == {u \in RawURLs : u.scheme # "" /\ u.netloc # <<>>}

\* the original_url and custom_alias an API creation request may carry
\* (NULL: no custom_alias in the request)
ApiInputs ==
    { <<URL1, NULL>>, <<URL2, CodeA>>, <<URL1, <<"A","d","m","i","n">> >>,
      <<[scheme |-> "https", netloc |-> <<"b","i","t",".","l","y">>, rest |-> "/z"], NULL>> }

\* the texts a bulk request may carry, one URL per line or list entry
BulkInputs ==
    { <<[scheme |-> "", netloc |-> <<"A",".","i","o">>, rest |-> "/x"], URL2>>,
      <<[scheme |-> "https", netloc |-> <<"b","i","t",".","l","y">>, rest |-> "/z"]>>,
      <<URL2>> }

\* the <str:short_code> a redirect request may carry
Keys == {CodeA, CodeB}

\* what get_client_ip may give for a redirect request: an address, or None
\* when the request has neither X-Forwarded-For nor REMOTE_ADDR
ClientIPs == {"192.0.2.1", "None"}

(***************************************************************************)
(* State.                                                                  *)
(***************************************************************************)
VARIABLES
    links,      \* the URLShortener table: row i has id i
    clicks,     \* the URLClick table: a bag of rows
    now,        \* timezone.now()
    req,        \* per worker: the request it is handling and where it is in it
    out,        \* the response the last step has sent, if it has sent one
    cache,      \* django.core.cache: per key the set of the value stored
                \* under it, empty when there is no entry
    admitted,   \* per class of requests: how many of them the rate limiter
                \* has let through since the cache entry of their key began
    lastResolved \* the key and target of the last lookup that found its link,
                 \* while no link has been written since, and whether the
                 \* lookup before it was of the same key

vars == <<links, clicks, now, req, out, cache, admitted, lastResolved>>

Idle == [pc |-> "idle", via |-> "none"]
NoResponse == [kind |-> "none"]
NotResolved == [key |-> <<>>, again |-> FALSE]

Ids == DOMAIN links

\* the classes of requests RateLimitMiddleware.process_request tells apart,
\* with the cache key (of one client address) and the limit of each
RateClasses ==
    { [name |-> "form", key |-> "form_rate_limit", limit |-> 50],
      [name |-> "api_anonymous", key |-> "api_rate_limit", limit |-> 100],
      [name |-> "api_authenticated", key |-> "api_rate_limit", limit |-> 1000] }

RateKeys == {c.key : c \in RateClasses}
RateNames == {c.name : c \in RateClasses}

\* no entry in the cache, nothing let through
NoCache == [k \in RateKeys |-> {}]
NoneAdmitted == [n \in RateNames |-> 0]

(***************************************************************************)
(* Queries on the URLShortener table.                                      *)
(***************************************************************************)
\* URLShortener.is_expired
is_expired(link) ==
    IF link.expires_at # {}
    THEN \E t \in link.expires_at : now > t
    ELSE FALSE

\* the same filter without is_active=True
AllMatches(key) ==
    {i \in Ids : links[i].short_code = key \/ links[i].custom_alias = key}

\* filter(Q(short_code=key) | Q(custom_alias=key), is_active=True)
ActiveMatches(key) ==
    {i \in Ids : /\ links[i].is_active
                 /\ (links[i].short_code = key \/ links[i].custom_alias = key)}

\* QuerySet.first() under Meta.ordering = ['-created_at']: the newest row
\* (rows are created in the order of their ids); 0 for None
First(rows) ==
    IF rows = {} THEN 0 ELSE CHOOSE i \in rows : \A j \in rows : j <= i

\* filter(custom_alias=alias, is_active=True).exists()
AliasTaken(alias) ==
    \E i \in Ids : links[i].custom_alias = alias /\ links[i].is_active

\* filter(short_code=alias, is_active=True).exists()
AliasConflictsWithCode(alias) ==
    \E i \in Ids : links[i].short_code = alias /\ links[i].is_active

\* UrlForm.clean_custom_alias / URLShortenerSerializer.validate_custom_alias:
\* TRUE when the alias is accepted
clean_custom_alias(alias) ==
    IF alias # <<>>
    THEN /\ is_valid_custom_alias(alias)
         /\ ~AliasTaken(alias)
         /\ ~AliasConflictsWithCode(alias)
    ELSE TRUE

\* filter(original_url=url, is_active=True, custom_alias__isnull=True).first()
ExistingWithoutAlias(url) ==
    First({i \in Ids : /\ links[i].original_url = url
                       /\ links[i].is_active
                       /\ links[i].custom_alias = NULL})

\* filter(original_url=url, is_active=True).first()
ExistingAny(url) ==
    First({i \in Ids : links[i].original_url = url /\ links[i].is_active})

\* URLShortener.objects.filter(short_code=code).exists()
CodeExists(code) == \E i \in Ids : links[i].short_code = code

(***************************************************************************)
(* URLShortener.generate_short_code: the codes a call may return.  The     *)
(* loop draws a random string and returns it when no row has it as its     *)
(* short_code; it draws again, up to max_attempts times, while the draws   *)
(* are taken.  After max_attempts taken draws it returns the first 6 hex   *)
(* digits of a digest, unchecked.                                          *)
(***************************************************************************)
max_attempts == 100

\* the numbers of draws in a row that may come out taken
TakenRuns ==
    {k \in 0..max_attempts : k = 0 \/ \E c \in RandomDraws : CodeExists(c)}

generate_short_code ==
    {c \in RandomDraws : ~CodeExists(c) /\ \E k \in TakenRuns : k < max_attempts}
    \cup (IF max_attempts \in TakenRuns THEN DigestPrefixes ELSE {})

(***************************************************************************)
(* The same loop, one turn a step: a turn draws a code, looks it up and    *)
(* returns it when no row has it; after max_attempts turns the digest      *)
(* prefix is returned as it is.  attempts counts the lookups done.         *)
(***************************************************************************)
\* the lookups the call of worker w has done
Attempts(w) == IF req[w].pc = "generate" THEN req[w].attempts ELSE 0

\* a loop without its bound
LoopForever(k) == TRUE

\* for _ in range(100): there is another turn after k turns
LoopGoesOn(k) == k < max_attempts

\* what is kept of the request of worker w while and after it generates
Generating(w, pc, attempts) ==
    [pc |-> pc, via |-> req[w].via, url |-> req[w].url, alias |-> req[w].alias,
     rival |-> req[w].rival, attempts |-> attempts]

GenerateStep(w, code, digest) ==
    /\ req[w].pc \in {"save", "generate"}
    /\ req[w].via = "single"
    /\ IF LoopGoesOn(Attempts(w))
       THEN IF ~CodeExists(code)
            THEN req' = [req EXCEPT ![w] =
                           Generating(w, "insert", Attempts(w) + 1) @@ [code |-> code]]
            ELSE req' = [req EXCEPT ![w] = Generating(w, "generate", Attempts(w) + 1)]
       ELSE req' = [req EXCEPT ![w] =
                      Generating(w, "insert", Attempts(w))
                      @@ [code |-> Slice(digest, length)]]
    /\ out' = NoResponse
    /\ UNCHANGED <<cache, admitted, links, clicks, now, lastResolved>>

(***************************************************************************)
(* The INSERT of a URLShortener row.  The unique indexes of short_code and *)
(* of custom_alias (NULLs apart) are checked by the database as part of    *)
(* the statement.                                                          *)
(***************************************************************************)
\* updated_at is auto_now: Model.save() sets it to timezone.now() when the
\* statement writes the column, which an INSERT and a save() of all the
\* columns do, and a save(update_fields=[...]) that does not name it does not
NewLink(url, code, alias) ==
    [ original_url |-> url,
      short_code   |-> code,
      custom_alias |-> alias,
      click_count  |-> 0,
      updated_at   |-> now,
      expires_at   |-> {},
      title        |-> "",
      is_active    |-> TRUE ]

\* utils.get_url_metadata: what the page at the URL gives.  The page of
\* HostA has a title; the others have none, or cannot be fetched
get_url_metadata(url) ==
    IF url.netloc = HostA THEN [title |-> "T"] ELSE [title |-> ""]

\* an enrichment that stores the URL the fetch ended at as original_url
StoreFetchedUrl(row) == [row EXCEPT !.original_url = URL2]

\* the metadata enrichment of form_valid and perform_create:
\* url_obj.save(update_fields=['title', 'description']) on the row just
\* inserted (description goes the way of title)
WithMetadata(row) ==
    IF get_url_metadata(row.original_url).title # ""
    THEN [row EXCEPT !.title = get_url_metadata(row.original_url).title]
    ELSE row

\* short_code without its unique index
ShortCodeNotUnique(row) == TRUE

\* unique=True on short_code
ShortCodeUnique(row) == \A i \in Ids : links[i].short_code # row.short_code

\* unique=True on custom_alias; NULL is equal to no NULL
CustomAliasUnique(row) ==
    row.custom_alias = NULL \/ \A i \in Ids : links[i].custom_alias # row.custom_alias

\* the unique constraints the row would violate
Violations(row) ==
    (IF ShortCodeUnique(row) THEN {} ELSE {"short_code"})
    \cup (IF CustomAliasUnique(row) THEN {} ELSE {"custom_alias"})

(***************************************************************************)
(* Init: empty tables, every worker idle.                                  *)
(***************************************************************************)
Init ==
    /\ links = <<>>
    /\ clicks = EmptyBag
    /\ now = 0
    /\ req = [w \in Workers |-> Idle]
    /\ out = NoResponse
    /\ cache = NoCache
    /\ admitted = NoneAdmitted
    /\ lastResolved = NotResolved

\* worker w sends response r and is idle again
Respond(w, r) ==
    /\ req' = [req EXCEPT ![w] = Idle]
    /\ out' = r

\* the workers that have passed the alias check with this alias and have
\* not yet got the answer of their INSERT
InFlightWithAlias(alias) ==
    {v \in Workers : req[v].pc \in {"save", "insert"} /\ req[v].alias = alias}

\* worker w goes on to URLShortener.objects.create(original_url, custom_alias).
\* rival records, for a request that is in flight together with another one
\* carrying the same alias, how the other one's INSERT ended
BeginCreate(w, url, alias) ==
    LET others == IF alias \in {NULL, <<>>} THEN {} ELSE InFlightWithAlias(alias) \ {w}
    IN  /\ req' = [v \in Workers |->
                    IF v = w
                    THEN [pc |-> "save", via |-> "single", url |-> url, alias |-> alias,
                          rival |-> IF others # {} THEN "pending" ELSE "none"]
                    ELSE IF v \in others
                    THEN [req[v] EXCEPT !.rival = "pending"]
                    ELSE req[v]]
        /\ out' = NoResponse

(***************************************************************************)
(* POST / : UrlForm.is_valid() (clean_custom_alias), then                  *)
(* URLShortenerView.form_valid up to the INSERT.                           *)
(***************************************************************************)
FormSubmit(w, link, custom_alias) ==
    /\ req[w] = Idle
    /\ UNCHANGED <<cache, admitted, links, clicks, now, lastResolved>>
    /\ IF ~clean_custom_alias(custom_alias)
       THEN Respond(w, [kind |-> "form_invalid"])
       ELSE LET v == validate_url(link)
            IN  IF ~v.ok
                THEN Respond(w, [kind |-> "invalid_url"])
                ELSE IF ~is_safe_url(v.url)
                THEN Respond(w, [kind |-> "unsafe_url"])
                ELSE IF custom_alias = <<>> /\ ExistingWithoutAlias(v.url) # 0
                THEN Respond(w, [kind |-> "existing",
                                 id |-> ExistingWithoutAlias(v.url)])
                ELSE BeginCreate(w, v.url,
                                 IF custom_alias # <<>> THEN custom_alias ELSE NULL)

(***************************************************************************)
(* POST /api/urls/ : serializer.is_valid() (validate_original_url,         *)
(* validate_custom_alias), then URLShortenerCreateAPIView.create up to the *)
(* INSERT.  custom_alias is NULL when the request carries none (or null).  *)
(***************************************************************************)
\* the UniqueValidator a ModelSerializer gives the field of a unique model
\* field: no row, active or not, has the value
UniqueValidator(custom_alias) ==
    \A i \in Ids : links[i].custom_alias # custom_alias

ApiSubmit(w, original_url, custom_alias) ==
    /\ req[w] = Idle
    /\ UNCHANGED <<cache, admitted, links, clicks, now, lastResolved>>
    /\ LET v == validate_url(original_url)
       IN  IF ~v.ok \/ ~is_safe_url(v.url)
           THEN Respond(w, [kind |-> "bad_request"])
           ELSE IF custom_alias # NULL /\ ~UniqueValidator(custom_alias)
           THEN Respond(w, [kind |-> "bad_request"])
           ELSE IF custom_alias # NULL /\ ~clean_custom_alias(custom_alias)
           THEN Respond(w, [kind |-> "bad_request"])
           ELSE IF custom_alias \in {NULL, <<>>} /\ ExistingWithoutAlias(v.url) # 0
           THEN Respond(w, [kind |-> "existing",
                            id |-> ExistingWithoutAlias(v.url)])
           ELSE BeginCreate(w, v.url, custom_alias)

(***************************************************************************)
(* URLShortener.save of a new row: generate_short_code, then the INSERT.   *)
(***************************************************************************)
Save(w) ==
    /\ req[w].pc = "save"
    /\ \E code \in generate_short_code :
          req' = [req EXCEPT ![w] = [@ EXCEPT !.pc = "insert"] @@ [code |-> code]]
    /\ out' = NoResponse
    /\ UNCHANGED <<cache, admitted, links, clicks, now, lastResolved>>

\* the requests in flight with w's alias learn how w's INSERT ended
SettleRivals(w, outcome) ==
    [v \in Workers |->
        IF v = w THEN Idle
        ELSE IF /\ req[w].rival # "none"
                /\ req[v].pc \in {"save", "insert"}
                /\ req[v].alias = req[w].alias
        THEN [req[v] EXCEPT !.rival = outcome]
        ELSE req[v]]

\* the INSERT and the metadata enrichment after it (an UPDATE of title and
\* description of the new row, which no other request reads or writes
\* apart): the row is added, or the INSERT fails with IntegrityError,
\* which form_valid turns into 'Error creating short URL' and the API lets
\* through as a server error; the transaction leaves nothing behind
Insert(w) ==
    /\ req[w].pc = "insert"
    /\ req[w].via = "single"
    /\ LET row == NewLink(req[w].url, req[w].code, req[w].alias)
       IN  IF Violations(row) = {}
           THEN /\ Len(links) < MaxLinks
                /\ links' = Append(links, WithMetadata(row))
                /\ req' = SettleRivals(w, "created")
                /\ out' = [kind |-> "created", rival |-> req[w].rival]
                /\ lastResolved' = NotResolved
           ELSE /\ links' = links
                /\ req' = SettleRivals(w, "failed")
                /\ out' = [kind |-> "integrity_error", rival |-> req[w].rival,
                           violated |-> Violations(row)]
                /\ lastResolved' = lastResolved
    /\ UNCHANGED <<cache, admitted, clicks, now>>

(***************************************************************************)
(* POST /bulk/ (BulkShortenerView.post) and POST /api/urls/bulk/           *)
(* (BulkURLShortenerAPIView.post): one loop over the URLs, each handled    *)
(* like a creation without alias.  The API validates every URL before the  *)
(* loop and refuses the request when one is invalid or unsafe.             *)
(***************************************************************************)
\* the URLs normalized, none of them looked at by is_safe_url
NormalizeOnly(urls) ==
    IF \A i \in DOMAIN urls : validate_url(urls[i]).ok
    THEN [ok |-> TRUE, urls |-> [i \in DOMAIN urls |-> validate_url(urls[i]).url]]
    ELSE [ok |-> FALSE, urls |-> <<>>]

\* BulkURLShortenerSerializer.validate_urls
validate_urls(urls) ==
    IF \A i \in DOMAIN urls : validate_url(urls[i]).ok /\ is_safe_url(validate_url(urls[i]).url)
    THEN [ok |-> TRUE, urls |-> [i \in DOMAIN urls |-> validate_url(urls[i]).url]]
    ELSE [ok |-> FALSE, urls |-> <<>>]

\* urls = ListField(child=URLField(max_length=2048), max_length=50)
BulkURLShortenerSerializer(urls) == \A i \in DOMAIN urls : urls[i] \in FieldURLs

BulkSubmit(w, via, urls) ==
    /\ req[w] = Idle
    /\ \A v \in Workers : req[v].via \notin {"bulk_form", "bulk_api"}
    /\ UNCHANGED <<cache, admitted, links, clicks, now, lastResolved>>
    /\ IF via = "bulk_api" /\ ~(BulkURLShortenerSerializer(urls) /\ validate_urls(urls).ok)
       THEN Respond(w, [kind |-> "bad_request", request |-> "bulk"])
       ELSE /\ req' = [req EXCEPT ![w] =
                        [pc |-> "bulk_next", via |-> via, results |-> <<>>,
                         todo |-> IF via = "bulk_api"
                                  THEN validate_urls(urls).urls ELSE urls]]
            /\ out' = NoResponse

\* one turn of the loop, up to the INSERT
BulkNext(w) ==
    /\ req[w].pc = "bulk_next"
    /\ UNCHANGED <<cache, admitted, links, clicks, now, lastResolved>>
    /\ IF req[w].todo = <<>>
       THEN Respond(w, [kind |-> "bulk"])
       ELSE LET v == IF req[w].via = "bulk_api"
                     THEN [ok |-> TRUE, url |-> Head(req[w].todo)]
                     ELSE validate_url(Head(req[w].todo))
                done(status) == [req EXCEPT ![w].todo = Tail(@),
                                            ![w].results = Append(@, status)]
            IN  /\ out' = NoResponse
                /\ IF ~v.ok
                   THEN req' = done("error")
                   ELSE IF req[w].via = "bulk_form" /\ ~is_safe_url(v.url)
                   THEN req' = done("error")
                   ELSE IF ExistingAny(v.url) # 0
                   THEN req' = done("success")
                   ELSE req' = [req EXCEPT ![w] =
                                 [pc |-> "save", via |-> req[w].via, url |-> v.url,
                                  alias |-> NULL, rival |-> "none",
                                  todo |-> req[w].todo, results |-> req[w].results]]

\* the INSERT of a turn of the loop; the loop catches its failure
BulkInsert(w) ==
    /\ req[w].pc = "insert"
    /\ req[w].via \in {"bulk_form", "bulk_api"}
    /\ LET row == NewLink(req[w].url, req[w].code, req[w].alias)
           next(status) == [pc |-> "bulk_next", via |-> req[w].via,
                            todo |-> Tail(req[w].todo),
                            results |-> Append(req[w].results, status)]
       IN  IF Violations(row) = {}
           THEN /\ Len(links) < MaxLinks
                /\ links' = Append(links, row)
                /\ req' = [req EXCEPT ![w] = next("success")]
                /\ lastResolved' = NotResolved
           ELSE /\ links' = links
                /\ req' = [req EXCEPT ![w] = next("error")]
                /\ lastResolved' = lastResolved
    /\ out' = NoResponse
    /\ UNCHANGED <<cache, admitted, clicks, now>>

(***************************************************************************)
(* GET /<short_code>/ : RedirectView.get.  The lookup, the URLClick        *)
(* INSERT of track_click and the UPDATE of increment_click_count are three *)
(* statements, each of its own transaction; other requests run between     *)
(* them.                                                                   *)
(***************************************************************************)
RECURSIVE SumCounts(_)
\* the sum of the click_count of the rows 1..n
SumCounts(n) == IF n = 0 THEN 0 ELSE links[n].click_count + SumCounts(n - 1)

\* the redirect requests that have found their link and not yet answered
InRedirect == {w \in Workers : req[w].pc \in {"track", "increment"}}

\* what the user_agents library makes of a User-Agent header: the family
\* of the browser ("Other" when it knows none) and its version string
UserAgent(family, version) == [family |-> family, version |-> version]

\* request.META.get('HTTP_USER_AGENT', '') of a request without the header
NoUserAgent == UserAgent("", "")

\* utils.parse_user_agent, its 'browser'
parse_user_agent(user_agent) ==
    IF user_agent = NoUserAgent
    THEN <<"unknown">>
    ELSE IF user_agent.version # ""
    THEN <<user_agent.family, user_agent.version>>
    ELSE <<user_agent.family>>

\* the URLClick row track_click creates for a click on link i: geo_data is
\* the empty dict ClickTrackingMiddleware sets, so country is ''
URLClick(i, user_agent) ==
    [url |-> i, browser |-> parse_user_agent(user_agent), country |-> ""]

\* the URLClick rows that reference link i, as a bag
ClicksOf(i) ==
    LET rows == {r \in BagToSet(clicks) : r.url = i}
    IN  [r \in rows |-> clicks[r]]

\* the number of URLClick rows that reference link i
ClickRows(i) == BagCardinality(ClicksOf(i))

\* the redirect requests that find their link are cut off when the clicks
\* counted and the URLClick rows, with those of the requests in progress,
\* reach MaxClicks
ClicksInBounds ==
    /\ SumCounts(Len(links)) + Cardinality(InRedirect) < MaxClicks
    /\ BagCardinality(clicks) + Cardinality(InRedirect) < MaxClicks

\* what the lookup and the two checks after it come to for a key
Resolve(short_code) ==
    LET url_obj == First(ActiveMatches(short_code))
    IN  IF url_obj = 0
        THEN [kind |-> "not_found", key |-> short_code]
        ELSE IF is_expired(links[url_obj])
        THEN [kind |-> "expired", key |-> short_code, id |-> url_obj]
        ELSE [kind |-> "found", key |-> short_code, id |-> url_obj,
              url |-> links[url_obj].original_url]

\* a request that goes on with the oldest row whatever it has found
FoundOldest(w, found) ==
    [pc |-> "track", via |-> "redirect", id |-> 1,
     original_url |-> found.url,
     click_count |-> links[1].click_count]

\* a request that has found its link goes on to track_click, holding
\* url_obj, the row as it was read
FoundLink(w, found) ==
    [pc |-> "track", via |-> "redirect", id |-> found.id,
     original_url |-> found.url,
     click_count |-> links[found.id].click_count]

\* a lookup that counts the click by itself
CountingLookup(w, short_code) ==
    /\ req[w] = Idle
    /\ Resolve(short_code).kind = "found"
    /\ ClicksInBounds
    /\ links' = [links EXCEPT ![Resolve(short_code).id].click_count = @ + 1]
    /\ req' = [req EXCEPT ![w] = FoundLink(w, Resolve(short_code))]
    /\ out' = NoResponse
    /\ UNCHANGED <<cache, admitted, clicks, now, lastResolved>>

\* the lookup, the Http404 and the expiry check
RedirectLookup(w, short_code) ==
    /\ req[w] = Idle
    /\ LET r == Resolve(short_code)
       IN  IF r.kind # "found"
           THEN /\ Respond(w, r)
                /\ lastResolved' = lastResolved
           ELSE /\ ClicksInBounds
                /\ req' = [req EXCEPT ![w] = FoundLink(w, r)]
                /\ out' = NoResponse
                /\ lastResolved' = [key |-> short_code, url |-> r.url,
                                    again |-> lastResolved.key = short_code]
    /\ UNCHANGED <<cache, admitted, links, clicks, now>>

\* URLClick.objects.create: ip_address is NOT NULL
URLClickInsertable(ip_address) == ip_address # "None"

\* RedirectView.track_click: ip_address is what get_client_ip gives for the
\* request; the URLClick row is added, or the INSERT
\* raises and the exception is logged and dropped.  The redirect requests
\* carry no User-Agent header
TrackClick(w, ip_address) ==
    /\ req[w].pc = "track"
    /\ clicks' = IF URLClickInsertable(ip_address)
                 THEN clicks (+) SetToBag({URLClick(req[w].id, NoUserAgent)})
                 ELSE clicks
    /\ req' = [req EXCEPT ![w] =
                [pc |-> "increment", via |-> "redirect", id |-> req[w].id,
                 original_url |-> req[w].original_url,
                 click_count |-> req[w].click_count]]
    /\ out' = NoResponse
    /\ UNCHANGED <<cache, admitted, links, now, lastResolved>>

\* the value self.click_count += 1 would write, without the F() expression
ReadModifyWrite(stored, cached) == cached + 1

\* the value UPDATE ... SET click_count = click_count + 1 writes, given the
\* value stored in the row and the value url_obj was read with
IncrementedCount(stored, cached) == stored + 1

\* URLShortener.increment_click_count (save(update_fields=['click_count']):
\* an UPDATE of that one column), then redirect(url_obj.original_url);
\* or the UPDATE raises (the database is unavailable, the row has been
\* deleted) and the except Exception clause of get renders the error page
Increment(w) ==
    /\ req[w].pc = "increment"
    /\ \/ /\ links' = [links EXCEPT ![req[w].id].click_count =
                          IncrementedCount(@, req[w].click_count)]
          /\ Respond(w, [kind |-> "redirect", id |-> req[w].id,
                         url |-> req[w].original_url])
       \/ /\ links' = links
          /\ Respond(w, [kind |-> "error", id |-> req[w].id])
    /\ UNCHANGED <<cache, admitted, clicks, now, lastResolved>>

(***************************************************************************)
(* The admin site's change form of a link (URLShortenerAdmin.fieldsets):   *)
(* is_active and expires_at are editable.  The change view reads the row,  *)
(* sets the fields of the form on it and saves it, an UPDATE of all the    *)
(* columns of the row with the values of the object, those of the form and *)
(* those it was read with.                                                 *)
(***************************************************************************)
\* the SELECT of the change view
AdminLoad(w, i) ==
    /\ req[w] = Idle
    /\ i \in Ids
    /\ req' = [req EXCEPT ![w] =
                [pc |-> "admin_save", via |-> "admin", id |-> i, obj |-> links[i]]]
    /\ out' = NoResponse
    /\ UNCHANGED <<cache, admitted, links, clicks, now, lastResolved>>

\* the UPDATE of the change view
AdminSave(w, is_active, expires_at) ==
    /\ req[w].pc = "admin_save"
    /\ links' = [links EXCEPT ![req[w].id] =
                    [req[w].obj EXCEPT !.is_active = is_active,
                                       !.expires_at = expires_at,
                                       !.updated_at = now]]
    /\ Respond(w, [kind |-> "saved", id |-> req[w].id])
    /\ lastResolved' = NotResolved
    /\ UNCHANGED <<cache, admitted, clicks, now>>

\* the change view served with no statement of another request between its
\* SELECT and its UPDATE, for a change of is_active
AdminSetActive(i, active) ==
    /\ i \in Ids
    /\ links[i].is_active # active
    /\ links' = [links EXCEPT ![i].is_active = active, ![i].updated_at = now]
    /\ lastResolved' = NotResolved
    /\ out' = NoResponse
    /\ UNCHANGED <<cache, admitted, clicks, now, req>>

\* the same for a change of expires_at
AdminSetExpires(i, expires) ==
    /\ i \in Ids
    /\ links[i].expires_at # expires
    /\ links' = [links EXCEPT ![i].expires_at = expires, ![i].updated_at = now]
    /\ lastResolved' = NotResolved
    /\ out' = NoResponse
    /\ UNCHANGED <<cache, admitted, clicks, now, req>>

\* the expires_at values the admin may set: none, or a time
ExpiryInputs == {{}} \cup {{t} : t \in 0..(MaxTime - 1)}

Tick ==
    /\ now < MaxTime
    /\ now' = now + 1
    /\ out' = NoResponse
    /\ UNCHANGED <<cache, admitted, links, clicks, req, lastResolved>>

(***************************************************************************)
(* The creation requests, served concurrently, and the admin's             *)
(* deactivation of links.                                                  *)
(***************************************************************************)
Next ==
    \/ \E w \in Workers, u \in FieldURLs, a \in AliasInputs : FormSubmit(w, u, a)
    \/ \E w \in Workers, f \in ApiInputs : ApiSubmit(w, f[1], f[2])
    \/ \E w \in Workers, via \in {"bulk_form", "bulk_api"}, urls \in BulkInputs :
          BulkSubmit(w, via, urls)
    \/ \E w \in Workers : BulkNext(w)
    \/ \E w \in Workers : Save(w)
    \/ \E w \in Workers : Insert(w)
    \/ \E w \in Workers : BulkInsert(w)
    \/ \E i \in 1..MaxLinks : AdminSetActive(i, FALSE)

Spec == Init /\ [][Next]_vars

(***************************************************************************)
(* The redirect requests, served concurrently, while one worker creates    *)
(* links through the form, the admin deactivates them and sets their       *)
(* expires_at, and time passes.                                            *)
(***************************************************************************)
\* the fields of the form requests that create the links to redirect to
ShortenInputs == {<<URL1, CodeA>>, <<URL2, <<>>>>}

NextRedirect ==
    \/ \E f \in ShortenInputs : FormSubmit("w1", f[1], f[2])
    \/ Save("w1")
    \/ Insert("w1")
    \/ \E w \in Workers, k \in Keys : RedirectLookup(w, k)
    \/ \E w \in Workers, ip \in ClientIPs : TrackClick(w, ip)
    \/ \E w \in Workers : Increment(w)
    \/ \E i \in 1..MaxLinks : AdminSetActive(i, FALSE)
    \/ \E i \in 1..MaxLinks, e \in ExpiryInputs : AdminSetExpires(i, e)
    \/ Tick

SpecRedirect == Init /\ [][NextRedirect]_vars

(***************************************************************************)
(* The admin's change view, its SELECT and its UPDATE apart, served        *)
(* while the links it edits are redirected to.                             *)
(***************************************************************************)
NextAdmin ==
    \/ \E f \in ShortenInputs : FormSubmit("w1", f[1], f[2])
    \/ Save("w1")
    \/ Insert("w1")
    \/ \E w \in Workers, k \in Keys : RedirectLookup(w, k)
    \/ \E w \in Workers, ip \in ClientIPs : TrackClick(w, ip)
    \/ \E w \in Workers : Increment(w)
    \/ \E i \in 1..MaxLinks : AdminLoad("w2", i)
    \/ \E b \in BOOLEAN : AdminSave("w2", b, {})

SpecAdmin == Init /\ [][NextAdmin]_vars

(***************************************************************************)
(* The form creations of one worker, generate_short_code one turn of its   *)
(* loop a step, and the admin's deactivation of links.                     *)
(***************************************************************************)
NextGenerate ==
    \/ \E u \in {URL1, URL2}, a \in {<<>>, CodeA} : FormSubmit("w1", u, a)
    \/ \E c \in RandomDraws, d \in HexDigests : GenerateStep("w1", c, d)
    \/ Insert("w1")
    \/ \E i \in 1..MaxLinks : AdminSetActive(i, FALSE)

SpecGenerate == Init /\ [][NextGenerate]_vars

(***************************************************************************)
(* is_valid_custom_alias on its own: every worker holds an alias, and a    *)
(* step is the call of the function on it.                                 *)
(***************************************************************************)
\* the string of n characters c
Repeat(c, n) == [i \in 1..n |-> c]

AliasSamples ==
    { NULL, <<>>,
      <<"a","b">>, <<"a","b","c">>, <<"a","_","-">>,
      <<"m","y"," ","l","i","n","k">>,
      <<"t","e","s","t","@","l","i","n","k">>,
      <<"m","y","-","l","i","n","k">>,
      <<"t","e","s","t","_","1","2","3">>,
      <<"a","d","m","i","n">>, <<"A","d","m","i","n">>, <<"A","P","I">>,
      <<"a","d","m","i","n","1">>, <<"R","e","g","i","s","t","e","r">>,
      <<"b","u","l","k">>, <<"q","r">>, <<"a","n","a","l","y","t","i","c","s">>,
      <<"d","a","s","h","b","o","a","r","d">>,
      <<"a","b","c","\n">>, <<"a","b","\n","c">>, <<"a","b","\n">>,
      Repeat("x", AliasMaxLen), Repeat("x", AliasMaxLen + 1),
      Repeat("x", AliasMaxLen - 1) \o <<"!">> }

\* url_shortener.urls.urlpatterns: the view Django's resolver gives the
\* path /<segment>/, the first pattern that matches it.  admin/ and api/
\* are includes whose own patterns match the empty rest; analytics/ and
\* qr/ need a second segment; <str:short_code>/ matches every segment
resolve(segment) ==
    IF segment = <<"a","d","m","i","n">> THEN "admin"
    ELSE IF segment = <<"a","p","i">> THEN "api_info"
    ELSE IF segment = <<"d","a","s","h","b","o","a","r","d">> THEN "dashboard"
    ELSE IF segment = <<"b","u","l","k">> THEN "bulk"
    ELSE "redirect"

InitAlias ==
    /\ links = <<>>
    /\ clicks = EmptyBag
    /\ now = 0
    /\ req \in [Workers -> {[pc |-> "alias", via |-> "none", alias |-> a] :
                              a \in AliasSamples}]
    /\ out = NoResponse
    /\ cache = NoCache
    /\ admitted = NoneAdmitted
    /\ lastResolved = NotResolved

ValidateAlias(w) ==
    /\ req[w].pc = "alias"
    /\ Respond(w, [kind |-> "alias_checked", alias |-> req[w].alias,
                   valid |-> is_valid_custom_alias(req[w].alias)])
    /\ UNCHANGED <<cache, admitted, links, clicks, now, lastResolved>>

NextAlias == \E w \in Workers : ValidateAlias(w)

SpecAlias == InitAlias /\ [][NextAlias]_vars

(***************************************************************************)
(* RateLimitMiddleware.process_request for the requests of one client      *)
(* address: check_rate_limit reads the count stored under the cache key,   *)
(* answers 429 when it has reached the limit, and otherwise stores the     *)
(* count it has read plus one, with the window as the lifetime of the      *)
(* entry.  The read and the write are two calls of the cache; the requests *)
(* of other workers run between them.                                      *)
(***************************************************************************)
\* the requests being served that are not of class c
OfOtherClass(c) ==
    {v \in Workers : req[v].via = "rate_limit" /\ req[v].class # c.name}

\* cache.get(cache_key, 0), then the test against the limit.  The client
\* is explored one class of requests at a time: it sends requests of
\* another class only once the entries of its keys have expired
CheckRateLimit(w, c) ==
    /\ req[w] = Idle
    /\ OfOtherClass(c) = {}
    /\ \A k \in RateKeys : k # c.key => cache[k] = {}
    /\ \A n \in RateNames : n # c.name => admitted[n] = 0
    /\ LET current_requests == IF cache[c.key] = {} THEN 0
                               ELSE CHOOSE n \in cache[c.key] : TRUE
       IN  /\ admitted[c.name] - current_requests <= MaxLost
           /\ \A v \in Workers :
                 req[v].via = "rate_limit" =>
                    current_requests - req[v].current_requests <= MaxLost
           /\ IF current_requests >= c.limit
                 THEN Respond(w, [kind |-> "too_many_requests", class |-> c.name])
                 ELSE /\ req' = [req EXCEPT ![w] =
                                  [pc |-> "cache_set", via |-> "rate_limit",
                                   class |-> c.name, key |-> c.key,
                                   current_requests |-> current_requests]]
                      /\ out' = NoResponse
    /\ UNCHANGED <<links, clicks, now, cache, admitted, lastResolved>>

\* cache.set(cache_key, current_requests + 1, window); process_request
\* returns None and the request goes on to its view
CacheSet(w) ==
    /\ req[w].pc = "cache_set"
    /\ cache' = [cache EXCEPT ![req[w].key] = {req[w].current_requests + 1}]
    /\ admitted' = [admitted EXCEPT ![req[w].class] = @ + 1]
    /\ Respond(w, [kind |-> "admitted", class |-> req[w].class])
    /\ UNCHANGED <<links, clicks, now, lastResolved>>

\* the entry of a key reaches the end of its window and is gone (explored
\* for the windows that end between the requests of the client)
CacheExpire(k) ==
    /\ cache[k] # {}
    /\ \A v \in Workers : req[v].via # "rate_limit"
    /\ cache' = [cache EXCEPT ![k] = {}]
    /\ admitted' = [n \in RateNames |->
                      IF \E c \in RateClasses : c.name = n /\ c.key = k
                      THEN 0 ELSE admitted[n]]
    /\ out' = NoResponse
    /\ UNCHANGED <<links, clicks, now, req, lastResolved>>

NextRateLimit ==
    \/ \E w \in Workers, c \in RateClasses : CheckRateLimit(w, c)
    \/ \E w \in Workers : CacheSet(w)
    \/ \E k \in RateKeys : CacheExpire(k)

SpecRateLimit == Init /\ [][NextRateLimit]_vars

(***************************************************************************)
(* AnalyticsView.get_click_analytics and                                   *)
(* URLAnalyticsAPIView._get_click_analytics, the browser and the country   *)
(* distribution: values(column).annotate(count=Count('id'))                *)
(* .order_by('-count')[:10], for the country after exclude(country='').    *)
(* A distribution is the set of its entries; which of the groups of equal  *)
(* count are within the first 10 is the database's choice.                 *)
(***************************************************************************)
\* the groups of the rows by a column, each with the number of its rows
Groups(rows, column) ==
    {[value |-> v,
      count |-> BagCardinality([r \in {q \in DOMAIN rows : q[column] = v} |-> rows[r]])] :
        v \in {r[column] : r \in DOMAIN rows}}

\* a query without the slice: all the groups
Unsliced(groups, n) == {groups}

\* order_by('-count')[:n]: the results the query may give
Top(groups, n) ==
    IF Cardinality(groups) <= n
    THEN {groups}
    ELSE {S \in SUBSET groups :
            /\ Cardinality(S) = n
            /\ \A g \in S, h \in groups \ S : g.count >= h.count}

TopBrowsers == 10
TopCountries == 10

\* the results browser_clicks may have for link i
browser_clicks(i) == Top(Groups(ClicksOf(i), "browser"), TopBrowsers)

\* the results country_clicks may have for link i
country_clicks(i) ==
    LET rows == ClicksOf(i)
        named == [r \in {q \in DOMAIN rows : q.country # ""} |-> rows[r]]
    IN  Top(Groups(named, "country"), TopCountries)

\* GET /analytics/<short_code>/ and GET /api/analytics/<short_code>/
Analytics(w, short_code) ==
    /\ req[w] = Idle
    /\ LET url_obj == First(ActiveMatches(short_code))
       IN  IF url_obj = 0
           THEN Respond(w, [kind |-> "not_found", key |-> short_code])
           ELSE \E b \in browser_clicks(url_obj), c \in country_clicks(url_obj) :
                   Respond(w, [kind |-> "analytics", id |-> url_obj,
                               browser_clicks |-> b, country_clicks |-> c])
    /\ UNCHANGED <<links, clicks, now, cache, admitted, lastResolved>>

\* the browser families of the clicks
Families ==
    << "Chrome", "Firefox", "Safari", "Edge", "Opera", "IE", "Samsung Internet",
       "UC Browser", "Chromium", "Vivaldi", "Brave", "Other" >>

MaxBrowsers == Len(Families)

\* the User-Agent header of the k-th click of a table: none for k = 0,
\* else that of the k-th family, every other one with a version
UserAgentOfClick(k) ==
    IF k = 0 THEN NoUserAgent ELSE UserAgent(Families[k], IF k % 2 = 0 THEN "1" ELSE "")

\* the URLClick tables the analytics are taken of: link 1 has one click of
\* each of the first n browsers and a second one of each of the first m of
\* them, link 2 has one click without User-Agent or none
ClickTables ==
    {SetToBag({URLClick(1, UserAgentOfClick(k)) : k \in 1..n})
     (+) SetToBag({URLClick(1, UserAgentOfClick(k)) : k \in 1..m})
     (+) SetToBag({URLClick(2, UserAgentOfClick(0)) : k \in 1..j}) :
        n \in 0..MaxBrowsers, m \in 0..2, j \in 0..1}

\* two links, as two form requests leave them, counted as their clicks
\* have been, and a table of clicks
InitAnalytics ==
    /\ clicks \in ClickTables
    /\ now = 0
    /\ links = [i \in 1..2 |->
                  [NewLink(IF i = 1 THEN URL1 ELSE URL2,
                           IF i = 1 THEN CodeA ELSE CodeB, NULL)
                     EXCEPT !.click_count = ClickRows(i),
                            !.title = get_url_metadata(IF i = 1 THEN URL1 ELSE URL2).title]]
    /\ req = [w \in Workers |-> Idle]
    /\ out = NoResponse
    /\ cache = NoCache
    /\ admitted = NoneAdmitted
    /\ lastResolved = NotResolved

NextAnalytics == \E w \in Workers, k \in Keys : Analytics(w, k)

SpecAnalytics == InitAnalytics /\ [][NextAnalytics]_vars

(***************************************************************************)
(* Properties.                                                             *)
(***************************************************************************)
\* the keys a redirect request finds link i by
LookupKeys(i) == {links[i].short_code, links[i].custom_alias} \ {NULL}

\* link i is active and not expired
Live(i) == links[i].is_active /\ ~is_expired(links[i])

\* C1: for every lookup key, at most one active, non-expired link has it as
\* its short_code or as its custom_alias, across the two columns.
C1_OneLiveLinkPerKey ==
    \A i, j \in Ids :
        (i # j /\ Live(i) /\ Live(j)) => LookupKeys(i) \cap LookupKeys(j) = {}

\* C2: no two rows, active or inactive, have the same short_code, whatever
\* the interleaving of the form, API and bulk creations.
C2_ShortCodeUnique ==
    \A i, j \in Ids : i # j => links[i].short_code # links[j].short_code

\* C2: a creation has been refused by the unique index of short_code
C2_Witness ==
    /\ out.kind = "integrity_error"
    /\ "short_code" \in out.violated
    /\ Len(links) >= 1

\* C5: a creation whose INSERT is refused for its short_code goes back to
\* generating a code and inserting again.
C5_RetriesOnCodeCollision ==
    [][\A w \in Workers :
         ( /\ Insert(w) \/ BulkInsert(w)
           /\ ~ShortCodeUnique(NewLink(req[w].url, req[w].code, req[w].alias)) )
         => req'[w].pc = "save"]_vars

\* C6: of two concurrent creations with the same custom alias that have both
\* passed the alias check, exactly one inserts its row and the other is
\* refused.
C6_ExactlyOneInserts ==
    (out.kind \in {"created", "integrity_error"} /\ out.rival \in {"created", "failed"})
    => ((out.kind = "created") # (out.rival = "created"))

C4_CountEqualsClickRows ==
    InRedirect = {} => \A i \in Ids : links[i].click_count = ClickRows(i)

\* C7: a redirect request whose key matches an active link with expires_at
\* in the past is answered Expired, not NotFound and not by going on to the
\* redirect.
C7_ExpiredIsAnswered ==
    [][\A w \in Workers, k \in Keys :
         ( /\ RedirectLookup(w, k)
           /\ \E i \in Ids : /\ links[i].is_active
                             /\ k \in LookupKeys(i)
                             /\ is_expired(links[i]) )
         => out'.kind = "expired"]_vars

\* C8: a key that matches no link, or inactive links only, is answered
\* NotFound, and the link a redirect request goes on with, and redirects to
\* in the end, is one that was active and matched the key at the lookup.
C8_InactiveNeverServed ==
    [][\A w \in Workers :
         /\ \A k \in Keys :
               RedirectLookup(w, k) =>
                  /\ (\A i \in Ids : k \in LookupKeys(i) => ~links[i].is_active)
                        => (out'.kind = "not_found" /\ req'[w] = Idle)
                  /\ req'[w].pc = "track" =>
                        /\ links[req'[w].id].is_active
                        /\ k \in LookupKeys(req'[w].id)
                        /\ req'[w].original_url = links[req'[w].id].original_url
         /\ (Increment(w) /\ out'.kind = "redirect") =>
               /\ out'.id = req[w].id
               /\ out'.url = req[w].original_url]_vars

\* C8: a key that matches an inactive link has been answered NotFound
C8_Witness ==
    /\ out.kind = "not_found"
    /\ \E i \in Ids : out.key \in LookupKeys(i) /\ ~links[i].is_active

\* C9: every active, non-expired link resolves, by its short_code and by
\* its custom_alias when it has one, to its own original_url.
C9_LinksResolve ==
    \A i \in Ids :
        Live(i) => \A k \in LookupKeys(i) :
                      /\ Resolve(k).kind = "found"
                      /\ Resolve(k).url = links[i].original_url

\* C10, as stated: a second lookup of a key, with no write to the links
\* since a lookup that found its link, finds the same original_url, and no
\* step of a redirect request changes a click_count.
C10_IdempotentNoCount ==
    [][\A w \in Workers :
         /\ \A k \in Keys :
               (RedirectLookup(w, k) /\ lastResolved.key = k) =>
                  (Resolve(k).kind = "found" /\ Resolve(k).url = lastResolved.url)
         /\ (req[w].via = "redirect" /\ req'[w] # req[w]) =>
               \A i \in Ids : links'[i].click_count = links[i].click_count]_vars

\* C10, amended: a second lookup of a key, with no write to the links since
\* a lookup that found its link, finds the same original_url or finds the
\* link expired; the lookup changes no click_count, and the request that
\* found the link adds one to that link's click_count and to no other.
C10_StableLookup ==
    [][\A w \in Workers :
         /\ \A k \in Keys :
               RedirectLookup(w, k) =>
                  /\ links' = links
                  /\ lastResolved.key = k =>
                        \/ Resolve(k).kind = "expired"
                        \/ Resolve(k).kind = "found" /\ Resolve(k).url = lastResolved.url
         /\ (Increment(w) /\ out'.kind = "redirect") =>
               \A i \in Ids :
                  links'[i].click_count =
                     links[i].click_count + (IF i = req[w].id THEN 1 ELSE 0)]_vars

\* C10: a key has been looked up twice in a row with no write in between,
\* and the second request has been answered with the same original_url
C10_Witness ==
    /\ lastResolved.again
    /\ out.kind = "redirect"
    /\ out.url = lastResolved.url
    /\ links[out.id].click_count = 2

\* C11: once a row has custom alias A, every creation request that arrives
\* with alias A is refused with the alias-taken answer of the alias check
\* (the form is invalid, the API answers 400) and changes no link.
C11_AliasTakenIsAnswered ==
    [][\A w \in Workers :
         /\ \A u \in FieldURLs, a \in AliasInputs :
               ( /\ FormSubmit(w, u, a)
                 /\ \E i \in Ids : links[i].custom_alias = a )
               => (out'.kind = "form_invalid" /\ links' = links)
         /\ \A f \in ApiInputs :
               ( /\ ApiSubmit(w, f[1], f[2])
                 /\ f[2] # NULL
                 /\ \E i \in Ids : links[i].custom_alias = f[2] )
               => (out'.kind = "bad_request" /\ links' = links)]_vars

\* C12: a creation whose INSERT comes after a link has been deactivated
\* never adds a link whose short_code or custom_alias is the short_code or
\* the custom_alias of the deactivated link.
C12_DeactivatedKeysStayReserved ==
    [][\A w \in Workers :
         ( /\ Insert(w) \/ BulkInsert(w)
           /\ Len(links') = Len(links) + 1 )
         => \A i \in Ids :
               ~links[i].is_active =>
                  LookupKeys(i) \cap
                     ({links'[Len(links')].short_code,
                       links'[Len(links')].custom_alias} \ {NULL}) = {}]_vars

\* C13: a redirect request that has found its link, active and not expired,
\* is answered by the redirect to that link's original_url, whatever fails
\* in track_click or in increment_click_count.
C13_RecordingFailureNotSurfaced ==
    [][\A w \in Workers :
         (req[w].via = "redirect" /\ req'[w] = Idle)
         => (out'.kind = "redirect" /\ out'.url = req[w].original_url)]_vars

\* C14: the redirect response of a request is not sent after the URLClick
\* INSERT of that request: no request that has been through track_click
\* is the one that sends the redirect.
C14_ResponseBeforeRecording ==
    [][\A w \in Workers :
         req[w].pc = "increment" => ~(req'[w] = Idle /\ out'.kind = "redirect")]_vars

\* C15: no step lowers a click_count, and a step that changes one is the
\* increment of a redirect request, which adds exactly 1 to the value the
\* row has.
C15_CountOnlyIncrements ==
    [][\A i \in Ids :
         links'[i].click_count # links[i].click_count =>
            /\ links'[i].click_count = links[i].click_count + 1
            /\ \E w \in Workers : Increment(w) /\ req[w].id = i]_vars

\* the codes that have been assigned: those of the rows and those of the
\* requests that are about to insert
AssignedCodes ==
    {links[i].short_code : i \in Ids}
    \cup {req[w].code : w \in {v \in Workers : req[v].pc = "insert"}}

\* [A-Za-z0-9]
Alphanumerics ==
    { "a","b","c","d","e","f","g","h","i","j","k","l","m",
      "n","o","p","q","r","s","t","u","v","w","x","y","z",
      "A","B","C","D","E","F","G","H","I","J","K","L","M",
      "N","O","P","Q","R","S","T","U","V","W","X","Y","Z",
      "0","1","2","3","4","5","6","7","8","9" }

\* C16: every generated short_code, from a random draw or from the digest
\* after 100 taken draws, has exactly 6 characters, all in [A-Za-z0-9].
C16_CodeFormat ==
    \A c \in AssignedCodes : Len(c) = 6 /\ Range(c) \subseteq Alphanumerics

\* C16: a row has a code of a random draw, and a request is about to insert
\* the code the digest gave it after 100 taken draws
C16_Witness ==
    /\ \E i \in Ids : links[i].short_code \in RandomDraws
    /\ \E w \in Workers :
          /\ req[w].pc = "insert"
          /\ req[w].attempts = max_attempts
          /\ ~LoopGoesOn(req[w].attempts)

\* C17: generate_short_code does at most 100 lookups; every turn of its
\* loop returns a code or is one lookup more; and after 100 lookups the
\* next step returns the digest prefix with no further lookup.
C17_GeneratorTerminates ==
    /\ [](\A w \in Workers : req[w].pc = "generate" => req[w].attempts <= 100)
    /\ [][\A w \in Workers :
            req[w].pc \in {"save", "generate"} /\ req'[w] # req[w] =>
               /\ req'[w].pc \in {"generate", "insert"}
               /\ req'[w].attempts <= 100
               /\ req'[w].pc = "generate" => req'[w].attempts = Attempts(w) + 1
               /\ Attempts(w) = 100 =>
                     /\ req'[w].pc = "insert"
                     /\ req'[w].attempts = 100
                     /\ req'[w].code \in DigestPrefixes
               /\ req'[w].pc = "insert" => req'[w].code \in generate_short_code]_vars

\* C17: the loop has done its 100 lookups and the digest has been returned
C17_Witness ==
    \E w \in Workers :
        /\ req[w].pc = "insert"
        /\ req[w].attempts = 100
        /\ req[w].code \in DigestPrefixes

\* C18: with one creation at a time, the code generate_short_code returns
\* is the short_code of no row, and no creation is refused for its
\* short_code.
C18_ReturnedCodeIsFree ==
    [][\A w \in Workers :
         /\ (req[w].pc \in {"save", "generate"} /\ req'[w].pc = "insert")
               => ~CodeExists(req'[w].code)
         /\ Insert(w) => out'.kind = "created"]_vars

\* C19: is_valid_custom_alias(a) is true exactly when a is absent or empty,
\* or has 3 to 50 characters, all in [A-Za-z0-9_-], and a lowercase form
\* that is none of the 17 reserved words.
C19_AliasValidator ==
    out.kind = "alias_checked" =>
       /\ Cardinality(reserved_words) = 17
       /\ out.valid <=>
             \/ out.alias = NULL
             \/ out.alias = <<>>
             \/ /\ Len(out.alias) >= 3
                /\ Len(out.alias) <= 50
                /\ Range(out.alias) \subseteq Alphanumerics \cup {"_", "-"}
                /\ Lower(out.alias) \notin reserved_words

\* the creation requests in progress that have passed their checks, with
\* the URL they are about to store
UrlsToStore == {req[w].url : w \in {v \in Workers : req[v].pc \in {"save", "insert"}}}

\* C20: after any sequence of form, API, bulk form and bulk API creation
\* requests no link has an original_url that is_safe_url classifies unsafe,
\* and a creation request for an unsafe URL adds no link: no request gets
\* as far as the save of a row with a URL that is_safe_url classifies unsafe.
C20_NoUnsafeLink ==
    /\ \A i \in Ids : is_safe_url(links[i].original_url)
    /\ \A u \in UrlsToStore : is_safe_url(u)

\* C20: a link exists, and a bulk form request has passed over the line of
\* an unsafe URL
C20_Witness ==
    /\ links # <<>>
    /\ \E w \in Workers :
          /\ req[w].pc = "bulk_next"
          /\ req[w].via = "bulk_form"
          /\ req[w].todo = <<>>
          /\ req[w].results = <<"error">>

\* C21: every mutation of a link, the click_count increment of a redirect
\* included, advances the stored updated_at of the link: a row that a step
\* changes has the time of the step as its updated_at.
C21_MutationAdvancesUpdatedAt ==
    [][\A i \in Ids : links'[i] # links[i] => links'[i].updated_at = now']_vars

\* the steps of the requests: they move a request on or answer it (the
\* admin's writes and the passing of time do neither)
RequestStep == req' # req \/ out' # NoResponse

\* C22: after creation no core operation (redirect, click recording,
\* metadata enrichment, a repeated create for the same URL) changes the id,
\* original_url, short_code or custom_alias of a link; the row a creation
\* leaves behind, enriched, has the URL, code and alias of its INSERT.
C22_KeyFieldsImmutable ==
    [][RequestStep =>
         /\ Len(links') >= Len(links)
         /\ \A i \in Ids :
               /\ links'[i].original_url = links[i].original_url
               /\ links'[i].short_code = links[i].short_code
               /\ links'[i].custom_alias = links[i].custom_alias
         /\ \A w \in Workers :
               (req[w].pc = "insert" /\ Len(links') = Len(links) + 1) =>
                  /\ links'[Len(links')].original_url = req[w].url
                  /\ links'[Len(links')].short_code = req[w].code
                  /\ links'[Len(links')].custom_alias = req[w].alias]_vars

\* C22: a link that was enriched with a title has been redirected to and
\* counted, and a repeated create for a URL was answered with its link
C22_Witness ==
    /\ \E i \in Ids : links[i].title # "" /\ links[i].click_count > 0
    /\ out.kind = "existing"

\* C23: a lookup key that matches more than one active row is answered
\* with an internal error and redirects to none of them; a key that
\* matches no active row is answered NotFound.
C23_MultipleMatchesIsError ==
    [][\A w \in Workers :
         /\ (req[w] = Idle /\ req'[w].pc = "track")
               => Cardinality(ActiveMatches(lastResolved'.key)) = 1
         /\ (req[w] = Idle /\ req'[w] = Idle /\ out'.kind = "not_found")
               => ActiveMatches(out'.key) = {}]_vars

\* C24: a bulk request with n URLs returns n result entries in input
\* order, an entry of its own for each URL: no bulk request is refused as
\* a whole for one of its URLs, and every turn of the loop adds the entry
\* of the URL it takes from the list.
C24_BulkEntriesIndependent ==
    [][\A w \in Workers :
         /\ \A via \in {"bulk_form", "bulk_api"}, urls \in BulkInputs :
               BulkSubmit(w, via, urls) =>
                  /\ req'[w].pc = "bulk_next"
                  /\ Len(req'[w].todo) = Len(urls)
                  /\ req'[w].results = <<>>
         /\ ( /\ req[w].pc \in {"bulk_next", "insert"}
              /\ req[w].via \in {"bulk_form", "bulk_api"}
              /\ req'[w].pc = "bulk_next" ) =>
               /\ req'[w].todo = Tail(req[w].todo)
               /\ Len(req'[w].results) = Len(req[w].results) + 1]_vars

\* C27: a redirect request changes the click_count and the URLClick rows
\* of the one link it resolved to and of no other; a request answered
\* NotFound or Expired adds no URLClick row and changes no click_count.
C27_RedirectTouchesOneLink ==
    [][RequestStep =>
         /\ \A w \in Workers :
               (req[w] = Idle /\ req'[w].pc = "track") =>
                  req'[w].id = First(ActiveMatches(lastResolved'.key))
         /\ \A i \in Ids :
               links'[i].click_count # links[i].click_count =>
                  \E w \in Workers : /\ req[w].pc = "increment"
                                     /\ req[w].id = i
                                     /\ req'[w] = Idle
                                     /\ \A j \in Ids \ {i} :
                                          links'[j].click_count = links[j].click_count
         /\ clicks' # clicks =>
               \E w \in Workers : /\ req[w].pc = "track"
                                  /\ req'[w].id = req[w].id
                                  /\ ClickRows(req[w].id)' = ClickRows(req[w].id) + 1
                                  /\ \A j \in Ids \ {req[w].id} :
                                       ClickRows(j)' = ClickRows(j)
         /\ out'.kind \in {"not_found", "expired"} =>
               /\ clicks' = clicks
               /\ \A i \in Ids : links'[i].click_count = links[i].click_count]_vars

\* C27: of two links one has been redirected to and counted, the other
\* not, and a request has just been answered NotFound or Expired
C27_Witness ==
    /\ Len(links) = 2
    /\ links[2].click_count > 0 /\ ClickRows(2) > 0
    /\ links[1].click_count = 0 /\ ClickRows(1) = 0
    /\ out.kind \in {"not_found", "expired"}

\* C28: after any interleaving of create requests without custom alias at
\* most one active link without custom alias exists per original_url.
C28_OneLinkPerUrl ==
    \A i, j \in Ids :
        ( /\ i # j
          /\ links[i].is_active /\ links[j].is_active
          /\ links[i].custom_alias = NULL /\ links[j].custom_alias = NULL )
        => links[i].original_url # links[j].original_url

\* C29: the link a create request answers with resolves to the submitted
\* URL at the time of the response; the reuse of an existing link never
\* answers with a link that has expired.
C29_ReusedLinkResolves ==
    [][out'.kind = "existing" =>
         /\ ~is_expired(links[out'.id])
         /\ Resolve(links[out'.id].short_code).kind = "found"
         /\ Resolve(links[out'.id].short_code).id = out'.id]_vars

\* C25: while the cache entry of a client's key lives the rate limiter
\* lets through at most limit requests of the client (50 form posts, 100
\* anonymous and 1000 authenticated API calls), however the requests are
\* interleaved.
C25_AtMostLimitAdmitted ==
    \A c \in RateClasses : admitted[c.name] <= c.limit

C30_AcceptedAliasIsRouted ==
    (out.kind = "alias_checked" /\ out.valid /\ out.alias \notin {NULL, <<>>})
       => resolve(out.alias) = "redirect"

=============================================================================
